---- MODULE Spec2Model ----
(***************************************************************************)
(* Station lifecycle of the clean-room notebook orchestrator.              *)
(*                                                                         *)
(* Two generations of the controller/client pair are modelled:             *)
(*   gen = 1   src/unnamed/part_000 ("Clean Room Orchestrator Job Step 2") *)
(*   gen = 2   src/src/databricks_clean_room_orchestrator/client.py        *)
(* A behaviour is one job: the run phase (prepareAndRunNotebook) followed  *)
(* by the teardown phase (teardownStation), which communicate only through *)
(* the task-value handoff store.  The platform is the environment: every   *)
(* HTTP call is answered nondeterministically.  `trace` records, in order, *)
(* every externally visible effect (requests, store writes, displays).     *)
(***************************************************************************)
EXTENDS Integers, Sequences, FiniteSets, TLC

VARIABLES gen, pc, widgets, notebook_parameters, output_table_parameters,
          trace, store, fetches, output, ret, runExc, tdExc

vars == <<gen, pc, widgets, notebook_parameters, output_table_parameters,
          trace, store, fetches, output, ret, runExc, tdExc>>

\* Largest number of "still in progress" answers the platform gives one poll loop.
MaxInProgress == 2

---------------------------------------------------------------------------
\* Python values

Str(s) == [t |-> "str", v |-> s]
Num(n) == [t |-> "num", v |-> n]
EmptyDict == <<>>

\* Values held by the task-value store, tagged with their Python type.
BoolVal(b) == [t |-> "bool", v |-> b]
StrVal(s) == [t |-> "str", v |-> s]
DictVal(d) == [t |-> "dict", v |-> d]

\* Python truthiness of a tagged value; a string is a sequence of tokens.
Truthy(x) ==
  CASE x.t = "bool" -> x.v
    [] x.t = "str" -> x.v # <<>>
    [] x.t = "dict" -> DOMAIN x.v # {}

NoExc == [type |-> "none", msg |-> <<>>]
Exc(type, msg) == [type |-> type, msg |-> msg]

---------------------------------------------------------------------------
\* Widget texts for the two JSON parameter widgets.  A text is the empty
\* string, something json.loads rejects, a JSON array, or a JSON object given
\* by its key/value pairs in textual order.

Text(tag, pairs) == [tag |-> tag, pairs |-> pairs]

ParamTexts ==
  { Text("empty", <<>>),
    Text("invalid", <<>>),
    Text("array", <<>>),
    Text("object", << <<"a", Str("b")>> >>),
    Text("object", << <<"a", Num(1)>> >>),
    Text("object", << <<"a", Str("b")>>, <<"a", Str("c")>> >>) }

\* json.loads on an object: a dict in which a repeated key keeps its last value.
DictOfPairs(pairs) ==
  [k \in {pairs[i][1] : i \in DOMAIN pairs} |->
     LET last == CHOOSE i \in DOMAIN pairs :
                   /\ pairs[i][1] = k
                   /\ \A j \in DOMAIN pairs : pairs[j][1] = k => j <= i
     IN  pairs[last][2]]

JsonLoads(text) ==
  CASE text.tag = "invalid" -> [exc |-> Exc("JSONDecodeError", <<>>), isdict |-> FALSE, val |-> EmptyDict]
    [] text.tag = "array" -> [exc |-> NoExc, isdict |-> FALSE, val |-> EmptyDict]
    [] text.tag = "object" -> [exc |-> NoExc, isdict |-> TRUE, val |-> DictOfPairs(text.pairs)]

\* Faulty variant: the values of the parsed object are not tested.
parseParametersUnchecked(parameters) ==
  IF parameters.tag = "empty"
  THEN [exc |-> NoExc, val |-> EmptyDict]
  ELSE LET parameters_json == JsonLoads(parameters) IN
       IF parameters_json.exc.type # "none"
       THEN [exc |-> parameters_json.exc, val |-> EmptyDict]
       ELSE IF ~parameters_json.isdict
       THEN [exc |-> Exc("AttributeError", <<>>), val |-> EmptyDict]
       ELSE [exc |-> NoExc, val |-> parameters_json.val]

\* CleanRoomClient.parseParameters.  Keys of a json.loads dict are always str,
\* so only the value test can fire; a non-dict has no .items().
parseParameters(parameters) ==
  IF parameters.tag = "empty"
  THEN [exc |-> NoExc, val |-> EmptyDict]
  ELSE LET parameters_json == JsonLoads(parameters) IN
       IF parameters_json.exc.type # "none"
       THEN [exc |-> parameters_json.exc, val |-> EmptyDict]
       ELSE IF ~parameters_json.isdict
       THEN [exc |-> Exc("AttributeError", <<>>), val |-> EmptyDict]
       ELSE IF \E k \in DOMAIN parameters_json.val : parameters_json.val[k].t # "str"
       THEN [exc |-> Exc("RuntimeError", <<"All values must be strings">>), val |-> EmptyDict]
       ELSE [exc |-> NoExc, val |-> parameters_json.val]

---------------------------------------------------------------------------
\* Platform answers

Responses ==
  { [status_code |-> 200, text |-> "json"],
    [status_code |-> 409, text |-> ""],
    [status_code |-> 409, text |-> "station exists"] }

\* requests.Response.raise_for_status
raise_for_status(results) ==
  IF results.status_code >= 400 /\ results.status_code < 600
  THEN Exc("HTTPError", <<ToString(results.status_code), " Client Error">>)
  ELSE NoExc

\* Faulty variant: generation 1 does not check the answer at all.
_check_results_gen1_unchecked(g, results) ==
  IF g = 1 \/ raise_for_status(results).type = "none" THEN NoExc
  ELSE IF results.text # ""
  THEN Exc("HTTPError", raise_for_status(results).msg \o <<" Body: ", results.text>>)
  ELSE raise_for_status(results)

\* CleanRoomRestClient._check_results.  Generation 1 reads e.message, which an
\* HTTPError does not have.
_check_results(g, results) ==
  LET e == raise_for_status(results) IN
  IF e.type = "none" THEN NoExc
  ELSE IF results.text # ""
       THEN IF g = 1
            THEN Exc("AttributeError", <<"'HTTPError' object has no attribute 'message'">>)
            ELSE Exc("HTTPError", e.msg \o <<" Body: ", results.text>>)
       ELSE e

WorkspaceStatuses == {"PROVISIONING", "RUNNING", "FAILED"}

RunStates ==
  { [life_cycle_state |-> "PENDING"],
    [life_cycle_state |-> "RUNNING"],
    [life_cycle_state |-> "SKIPPED"],
    [life_cycle_state |-> "INTERNAL_ERROR"],
    [life_cycle_state |-> "TERMINATED"],
    [life_cycle_state |-> "TERMINATED", result_state |-> "SUCCESS"],
    [life_cycle_state |-> "TERMINATED", result_state |-> "FAILED"] }

ObjectIds == {"7", "8"}

NoState == [none |-> TRUE]
NoRet == [returned |-> FALSE, state |-> NoState, url |-> <<>>]

---------------------------------------------------------------------------
\* Resource kinds and request payloads

\* class Resource (generation 2)
Resource ==
  [NOTEBOOK_SERVICE_PRINCIPAL |-> 1, COLLABORATOR_SHARES |-> 2, WORKSPACE |-> 3,
   METASTORE |-> 4, NOTEBOOK |-> 5]

\* class TeardownResource (generation 1)
TeardownResource ==
  [NOTEBOOK_SERVICE_PRINCIPAL |-> 1, COLLABORATOR_SHARES |-> 2, WORKSPACE |-> 3,
   METASTORE |-> 4]

\* An enum member, and the plain int that is its .value
Member(name, value) == [t |-> "enum", name |-> name, value |-> value]
IntArg(n) == [t |-> "int", v |-> n]

\* Body of the setup-resource request for a kind.
SetupBody(g, kind, collaborator, name, output_tables) ==
  IF g = 2
  THEN [resource |-> [resource_type |-> Member(kind, Resource[kind]).name]]
  ELSE CASE kind = "METASTORE" -> [metastore |-> EmptyDict]
         [] kind = "WORKSPACE" -> [workspace |-> EmptyDict]
         [] kind = "COLLABORATOR_SHARES" ->
              [collaborator_shares |-> [output_tables |-> output_tables]]
         [] kind = "NOTEBOOK_SERVICE_PRINCIPAL" -> [notebook_service_principal |-> EmptyDict]
         [] kind = "NOTEBOOK" ->
              [notebook |-> [notebook_collaborator |-> collaborator, notebook_name |-> name]]

---------------------------------------------------------------------------
\* Trace events

\* The answer to a request, and its absence on events that are not requests.
NoReply == [status_code |-> 0, text |-> ""]
Reply(results, e) == [e EXCEPT !.reply = results]

\* A client-method invocation: `sent` tells whether its HTTP request went out,
\* `ok` whether the method returned, `res` the status value it fetched, `data`
\* what else of the answer the controller goes on to use.
Call(ph, op, kind, body, ok, res) ==
  [ev |-> "call", ph |-> ph, op |-> op, kind |-> kind, body |-> body, sent |-> TRUE,
   ok |-> ok, res |-> res, data |-> <<>>, reply |-> NoReply]
Answered(ph, op, kind, body, res, data) ==
  [ev |-> "call", ph |-> ph, op |-> op, kind |-> kind, body |-> body, sent |-> TRUE,
   ok |-> TRUE, res |-> res, data |-> data, reply |-> NoReply]
Unsent(ph, op, kind) ==
  [ev |-> "call", ph |-> ph, op |-> op, kind |-> kind, body |-> EmptyDict, sent |-> FALSE,
   ok |-> FALSE, res |-> "-", data |-> <<>>, reply |-> NoReply]
SetEv(ph, key, val) ==
  [ev |-> "set", ph |-> ph, op |-> key, kind |-> "-", body |-> val, sent |-> FALSE,
   ok |-> TRUE, res |-> "-", data |-> <<>>, reply |-> NoReply]
DisplayEv(ph, link) ==
  [ev |-> "display", ph |-> ph, op |-> "displayHTML", kind |-> "-", body |-> link,
   sent |-> FALSE, ok |-> TRUE, res |-> "-", data |-> <<>>, reply |-> NoReply]
PrintEv(ph, text) ==
  [ev |-> "print", ph |-> ph, op |-> "print", kind |-> "-", body |-> text, sent |-> FALSE,
   ok |-> TRUE, res |-> "-", data |-> <<>>, reply |-> NoReply]

\* dbutils.jobs.taskValues.set / get
TaskSet(s, key, val) == [k \in DOMAIN s \cup {key} |-> IF k = key THEN val ELSE s[k]]
TaskGet(s, key, default) == IF key \in DOMAIN s THEN s[key] ELSE default

---------------------------------------------------------------------------
\* Notebook content and its re-import encoding

Contents == { <<>>, <<104, 105>> }

\* One base64 quantum: up to three bytes to four sextets, 64 standing for '='.
B64Group(g) ==
  LET n == Len(g)
      b1 == g[1]
      b2 == IF n >= 2 THEN g[2] ELSE 0
      b3 == IF n >= 3 THEN g[3] ELSE 0
  IN  << b1 \div 4,
         (b1 % 4) * 16 + (b2 \div 16),
         IF n >= 2 THEN (b2 % 16) * 4 + (b3 \div 64) ELSE 64,
         IF n >= 3 THEN b3 % 64 ELSE 64 >>

RECURSIVE b64encode(_)
b64encode(b) ==
  IF b = <<>> THEN <<>>
  ELSE IF Len(b) <= 3 THEN B64Group(b)
  ELSE B64Group(SubSeq(b, 1, 3)) \o b64encode(SubSeq(b, 4, Len(b)))

\* What the controller hands to importNotebook for an exported content.
ImportContent(g, content) == IF g = 2 THEN b64encode(content) ELSE content

OutputPath == <<"/Users/", "caller", "/", "clean_room_output_", "2026-01-01T00:00:00">>

\* Faulty variant: the link names a fixed notebook, not the imported one.
NotebookLinkFixed(g, object_id) == <<"/#notebook/", "7">>

\* The link built from the imported notebook's metadata.
NotebookLink(g, object_id) ==
  IF g = 2 THEN <<"/#notebook/", object_id>>
  ELSE <<"https://", "host", "/#notebook/", object_id>>

---------------------------------------------------------------------------
\* Initial state: the widgets of a job, and for generation 1 (whose Step 1
\* notebook calls the method with already-built dicts) the two dict arguments.

Names == {"", "room"}
StationNames == {"", "st1"}
OutputTableTexts == { Text("invalid", <<>>), Text("object", << <<"a", Str("b")>> >>) }
Gen1Dicts == { EmptyDict, [a |-> Str("b")] }

Init ==
  /\ gen \in {1, 2}
  /\ widgets \in [clean_room : IF gen = 2 THEN Names ELSE {"room"},
                  station_name : IF gen = 2 THEN StationNames ELSE {"st1"},
                  notebook_collaborator : {"alice"}, notebook_name : {"nb"},
                  nb_text : IF gen = 2 THEN ParamTexts ELSE {Text("empty", <<>>)},
                  ot_text : IF gen = 2 THEN OutputTableTexts ELSE {Text("empty", <<>>)}]
  /\ notebook_parameters \in (IF gen = 2 THEN {EmptyDict} ELSE Gen1Dicts)
  /\ output_table_parameters \in (IF gen = 2 THEN {EmptyDict} ELSE Gen1Dicts)
  /\ pc = IF gen = 2 THEN "entry" ELSE "create"
  /\ trace = <<>>
  /\ store = <<>>
  /\ fetches = [ws |-> 0, run |-> 0]
  /\ output = <<>>
  /\ ret = NoRet
  /\ runExc = NoExc
  /\ tdExc = NoExc

---------------------------------------------------------------------------
\* Run phase

\* Where the run phase goes when the lifecycle method returns: generation 2
\* returns into prepareAndRunNotebook, generation 1 into its caller.
AfterHelper(g) == IF g = 2 THEN "epilogue" ELSE "run_end"

\* client.py prepareAndRunNotebook up to the call of the helper: parse both
\* parameter widgets, check the names, record station_created.
ValidationError(w) ==
  LET nb == parseParameters(w.nb_text)
      ot == parseParameters(w.ot_text)
  IN  IF nb.exc.type # "none" THEN nb.exc
      ELSE IF ot.exc.type # "none" THEN ot.exc
      ELSE IF w.clean_room = "" \/ w.station_name = ""
      THEN Exc("RuntimeError", <<"Clean Room and Station Name must be non-empty">>)
      ELSE NoExc

\* Faulty variant: the flag is not recorded.
RecordNothing(s) == s

\* dbutils.jobs.taskValues.set(key="station_created", value=True)
RecordStationCreated(s) == TaskSet(s, "station_created", BoolVal(TRUE))

PrepareEntry ==
  /\ pc = "entry"
  /\ gen = 2
  /\ LET e == ValidationError(widgets) IN
     IF e.type # "none"
     THEN /\ pc' = "run_end"
          /\ runExc' = e
          /\ UNCHANGED <<notebook_parameters, output_table_parameters, trace, store>>
     ELSE /\ notebook_parameters' = parseParameters(widgets.nb_text).val
          /\ output_table_parameters' = parseParameters(widgets.ot_text).val
          /\ store' = RecordStationCreated(store)
          /\ trace' = Append(trace, SetEv("run", "station_created", BoolVal(TRUE)))
          /\ pc' = "create"
          /\ UNCHANGED runExc
  /\ UNCHANGED <<gen, widgets, fetches, output, ret, tdExc>>

\* Faulty variant: a failed call is swallowed and the sequence goes on.
RestCallSwallowing(at, op, kind, body, next) ==
  /\ pc = at
  /\ \E results \in Responses :
       LET e == _check_results(gen, results) IN
       /\ trace' = Append(trace, Reply(results, Call("run", op, kind, body, e.type = "none", "-")))
       /\ pc' = next
       /\ UNCHANGED runExc
  /\ UNCHANGED <<gen, widgets, notebook_parameters, output_table_parameters,
                 store, fetches, output, ret, tdExc>>

\* Faulty variant: a failed call is issued again.
RestCallRetrying(at, op, kind, body, next) ==
  /\ pc = at
  /\ \E results \in Responses :
       LET e == _check_results(gen, results) IN
       /\ trace' = Append(trace, Reply(results, Call("run", op, kind, body, e.type = "none", "-")))
       /\ pc' = IF e.type = "none" THEN next ELSE at
       /\ UNCHANGED runExc
  /\ UNCHANGED <<gen, widgets, notebook_parameters, output_table_parameters,
                 store, fetches, output, ret, tdExc>>

\* One non-polling REST call of the lifecycle method: issue the request, check
\* the answer, go on to `next` or propagate the exception.
RestCall(at, op, kind, body, next) ==
  /\ pc = at
  /\ \E results \in Responses :
       LET e == _check_results(gen, results) IN
       /\ trace' = Append(trace, Reply(results, Call("run", op, kind, body, e.type = "none", "-")))
       /\ IF e.type = "none"
          THEN pc' = next /\ UNCHANGED runExc
          ELSE pc' = "run_end" /\ runExc' = e
  /\ UNCHANGED <<gen, widgets, notebook_parameters, output_table_parameters,
                 store, fetches, output, ret, tdExc>>

SetupCall(at, kind, next) ==
  RestCall(at, "setupResource", kind,
           SetupBody(gen, kind, widgets.notebook_collaborator, widgets.notebook_name,
                     output_table_parameters),
           next)

CreateStation ==
  RestCall("create", "createStation", "-",
           IF gen = 2
           THEN [clean_room |-> widgets.clean_room, station_name |-> widgets.station_name]
           ELSE [station_name |-> widgets.station_name],
           "setup_ms")

SetupMetastore == SetupCall("setup_ms", "METASTORE", "setup_cs")
\* Faulty variant: the workspace is set up where the collaborator shares belong.
SetupCollaboratorSharesSwapped == SetupCall("setup_cs", "WORKSPACE", "setup_ws")
SetupCollaboratorShares == SetupCall("setup_cs", "COLLABORATOR_SHARES", "setup_ws")
SetupWorkspace == SetupCall("setup_ws", "WORKSPACE", "poll_ws")

\* Faulty variant: only a status named ERROR is fatal, anything else keeps polling.
WorkspaceVerdictLenient(workspace_status) ==
  IF workspace_status = "RUNNING" THEN "break"
  ELSE IF workspace_status = "ERROR" THEN "raise"
  ELSE "sleep"

\* Faulty variant: the loop gives up at its second PROVISIONING answer.
WorkspaceVerdictImpatient(workspace_status) ==
  IF workspace_status = "RUNNING" THEN "break"
  ELSE IF workspace_status # "PROVISIONING" \/ fetches.ws >= 1 THEN "raise"
  ELSE "sleep"

\* What one iteration of the workspace wait loop does with a fetched status.
WorkspaceVerdict(workspace_status) ==
  IF workspace_status = "RUNNING" THEN "break"
  ELSE IF workspace_status # "PROVISIONING" THEN "raise"
  ELSE "sleep"

\* The workspace wait loop, one iteration.
PollWorkspace ==
  /\ pc = "poll_ws"
  /\ \E results \in Responses :
       LET e == _check_results(gen, results) IN
       IF e.type # "none"
       THEN /\ trace' = Append(trace, Reply(results, Call("run", "getWorkspaceStatus", "-", EmptyDict, FALSE, "-")))
            /\ pc' = "run_end"
            /\ runExc' = e
       ELSE \E workspace_status \in WorkspaceStatuses :
            /\ workspace_status = "PROVISIONING" => fetches.ws < MaxInProgress
            /\ trace' = Append(trace, Reply(results, Call("run", "getWorkspaceStatus", "-", EmptyDict, TRUE,
                                           workspace_status)))
            /\ IF WorkspaceVerdict(workspace_status) = "break"
               THEN pc' = "setup_nsp" /\ UNCHANGED runExc
               ELSE IF WorkspaceVerdict(workspace_status) = "raise"
               THEN /\ pc' = "run_end"
                    /\ runExc' = Exc("RuntimeError", <<"Workspace could not be provisioned">>)
               ELSE pc' = "poll_ws" /\ UNCHANGED runExc
  /\ fetches' = [fetches EXCEPT !.ws = @ + 1]
  /\ UNCHANGED <<gen, widgets, notebook_parameters, output_table_parameters, store, output, ret, tdExc>>

SetupNotebookServicePrincipal == SetupCall("setup_nsp", "NOTEBOOK_SERVICE_PRINCIPAL", "setup_nb")
SetupNotebook == SetupCall("setup_nb", "NOTEBOOK", "run")

RunNotebook ==
  RestCall("run", "runNotebook", "-", [base_parameters |-> notebook_parameters], "poll_run")

InProgress(s) == s.life_cycle_state \notin {"TERMINATED", "SKIPPED", "INTERNAL_ERROR"}

\* Faulty variant: the loop stops waiting on any state that is not fatal.
RunVerdictHasty(life_cycle_state) ==
  IF life_cycle_state \in {"SKIPPED", "INTERNAL_ERROR"} THEN "raise" ELSE "break"

\* Faulty variant: SKIPPED is not treated as fatal.
RunVerdictLenient(life_cycle_state) ==
  IF life_cycle_state = "TERMINATED" THEN "break"
  ELSE IF life_cycle_state \in {"INTERNAL_ERROR"} THEN "raise"
  ELSE "sleep"

\* What one iteration of the notebook-run wait loop does with a fetched state.
RunVerdict(life_cycle_state) ==
  IF life_cycle_state = "TERMINATED" THEN "break"
  ELSE IF life_cycle_state \in {"SKIPPED", "INTERNAL_ERROR"} THEN "raise"
  ELSE "sleep"

\* The notebook-run wait loop, one iteration.
PollRunState ==
  /\ pc = "poll_run"
  /\ \E results \in Responses :
       LET e == _check_results(gen, results) IN
       IF e.type # "none"
       THEN /\ trace' = Append(trace, Reply(results, Call("run", "getRunState", "-", EmptyDict, FALSE, "-")))
            /\ pc' = "run_end"
            /\ runExc' = e
            /\ UNCHANGED ret
       ELSE \E s \in RunStates :
            /\ InProgress(s) => fetches.run < MaxInProgress
            /\ trace' = Append(trace, Reply(results, Answered("run", "getRunState", "-", EmptyDict,
                                               s.life_cycle_state, s)))
            /\ IF RunVerdict(s.life_cycle_state) = "break"
               THEN /\ ret' = [ret EXCEPT !.state = s]
                    /\ pc' = "export"
                    /\ UNCHANGED runExc
               ELSE IF RunVerdict(s.life_cycle_state) = "raise"
               THEN /\ pc' = "run_end"
                    /\ runExc' = Exc("RuntimeError", <<"Notebook could not be run">>)
                    /\ UNCHANGED ret
               ELSE pc' = "poll_run" /\ UNCHANGED <<runExc, ret>>
  /\ fetches' = [fetches EXCEPT !.run = @ + 1]
  /\ UNCHANGED <<gen, widgets, notebook_parameters, output_table_parameters, store, output, tdExc>>

\* Faulty variant: a run whose result is not SUCCESS is not exported.
ExportNotebookOutputOnSuccess ==
  /\ pc = "export"
  /\ IF "result_state" \in DOMAIN ret.state /\ ret.state.result_state # "SUCCESS"
     THEN /\ pc' = "run_end"
          /\ runExc' = Exc("RuntimeError", <<"Notebook run failed. Please inspect results.">>)
          /\ UNCHANGED <<trace, output>>
     ELSE \E results \in Responses :
          LET e == _check_results(gen, results) IN
          /\ trace' = Append(trace, Reply(results, Call("run", "exportNotebookOutput", "-",
                                                        EmptyDict, e.type = "none", "-")))
          /\ IF e.type = "none"
             THEN /\ \E content \in Contents : output' = content
                  /\ pc' = "import"
                  /\ UNCHANGED runExc
             ELSE /\ pc' = "run_end"
                  /\ runExc' = e
                  /\ UNCHANGED output
  /\ UNCHANGED <<gen, widgets, notebook_parameters, output_table_parameters,
                 store, fetches, ret, tdExc>>

\* Export of the notebook output; the answer carries the content.
ExportNotebookOutput ==
  /\ pc = "export"
  /\ \E results \in Responses :
       LET e == _check_results(gen, results) IN
       /\ trace' = Append(trace, Reply(results, Call("run", "exportNotebookOutput", "-", EmptyDict,
                                      e.type = "none", "-")))
       /\ IF e.type = "none"
          THEN /\ \E content \in Contents : output' = content
               /\ pc' = "import"
               /\ UNCHANGED runExc
          ELSE /\ pc' = "run_end"
               /\ runExc' = e
               /\ UNCHANGED output
  /\ UNCHANGED <<gen, widgets, notebook_parameters, output_table_parameters,
                 store, fetches, ret, tdExc>>

ImportNotebook ==
  RestCall("import", "importNotebook", "-",
           [path |-> OutputPath, content |-> ImportContent(gen, output), format |-> "HTML"],
           "get_status")

\* Metadata of the imported notebook, and the return of the lifecycle method.
GetNotebookStatus ==
  /\ pc = "get_status"
  /\ \E results \in Responses :
       LET e == _check_results(gen, results) IN
       IF e.type = "none"
       THEN \E object_id \in ObjectIds :
              /\ trace' = Append(trace, Reply(results, Answered("run", "getNotebookStatus", "-",
                                                 [path |-> OutputPath], "-", object_id)))
              /\ ret' = [ret EXCEPT !.returned = TRUE, !.url = NotebookLink(gen, object_id)]
              /\ pc' = AfterHelper(gen)
              /\ UNCHANGED runExc
       ELSE /\ trace' = Append(trace, Reply(results, Call("run", "getNotebookStatus", "-",
                                           [path |-> OutputPath], FALSE, "-")))
            /\ pc' = "run_end"
            /\ runExc' = e
            /\ UNCHANGED ret
  /\ UNCHANGED <<gen, widgets, notebook_parameters, output_table_parameters,
                 store, fetches, output, tdExc>>

\* Faulty variant: the result of the run is never tested.
ResultCheckNever(state) == NoExc

\* Exception of the final result test of client.py prepareAndRunNotebook.
ResultCheck(state) ==
  IF "result_state" \notin DOMAIN state THEN Exc("KeyError", <<"result_state">>)
  ELSE IF state.result_state # "SUCCESS"
  THEN Exc("RuntimeError", <<"Notebook run failed. Please inspect results.">>)
  ELSE NoExc

\* client.py prepareAndRunNotebook after the helper returned: persist the
\* outcome, display the link, fail on a result other than SUCCESS.
PersistOutcome ==
  /\ pc = "epilogue"
  /\ store' = TaskSet(TaskSet(store, "notebook_url", StrVal(ret.url)),
                      "notebook_run_state", DictVal(ret.state))
  /\ trace' = trace \o << SetEv("run", "notebook_url", StrVal(ret.url)),
                          SetEv("run", "notebook_run_state", DictVal(ret.state)),
                          DisplayEv("run", ret.url) >>
  /\ runExc' = ResultCheck(ret.state)
  /\ pc' = "run_end"
  /\ UNCHANGED <<gen, widgets, notebook_parameters, output_table_parameters,
                 fetches, output, ret, tdExc>>

---------------------------------------------------------------------------
\* Teardown phase

\* What Step 2 of generation 1 can find in the handoff store.  Its Step 1 is a
\* separate notebook; the store it leaves is an input of Step 2.
Gen1Handoff(r) ==
  { <<>>, TaskSet(<<>>, "station_created", BoolVal(TRUE)) }
  \cup (IF r.returned
        THEN { TaskSet(TaskSet(TaskSet(<<>>, "station_created", BoolVal(TRUE)),
                               "notebook_url", StrVal(r.url)),
                       "notebook_run_state", DictVal(r.state)) }
        ELSE {})

\* Faulty variant: the teardown phase does not look at the flag.
StationCreatedAlways(s) == TRUE

\* The guard of the teardown phase.
StationCreated(s) == Truthy(TaskGet(s, "station_created", BoolVal(FALSE)))

\* Faulty variant: teardown starts at the first kind the run phase did set up.
TeardownEntrySkipping ==
  /\ pc = "run_end"
  /\ IF gen = 1 THEN store' \in Gen1Handoff(ret) ELSE UNCHANGED store
  /\ pc' = IF ~StationCreated(store') THEN "done"
           ELSE IF \E i \in DOMAIN trace :
                     trace[i].op = "setupResource" /\ trace[i].kind = "NOTEBOOK_SERVICE_PRINCIPAL"
                THEN "td_nsp" ELSE "td_ws"
  /\ UNCHANGED <<gen, widgets, notebook_parameters, output_table_parameters,
                 trace, fetches, output, ret, runExc, tdExc>>

TeardownEntry ==
  /\ pc = "run_end"
  /\ IF gen = 1 THEN store' \in Gen1Handoff(ret) ELSE UNCHANGED store
  /\ pc' = IF StationCreated(store') THEN "td_nsp" ELSE "done"
  /\ UNCHANGED <<gen, widgets, notebook_parameters, output_table_parameters,
                 trace, fetches, output, ret, runExc, tdExc>>

\* The argument the controller passes to teardownStationResource.
TeardownArg(g, kind) ==
  IF g = 2 THEN Member(kind, Resource[kind]) ELSE IntArg(TeardownResource[kind])

\* Generation 1 teardownStationResource starts with
\*   print("Tearing down station resource: " + resource.value)
TeardownPrint(g, resource) ==
  IF g = 2 THEN NoExc
  ELSE IF resource.t = "int"
  THEN Exc("AttributeError", <<"'int' object has no attribute 'value'">>)
  ELSE Exc("TypeError", <<"can only concatenate str (not \"int\") to str">>)

TeardownBody(g, resource) ==
  IF g = 2 THEN [resource |-> [resource_type |-> resource.name]]
  ELSE [resource |-> resource.value]

\* Faulty variant: a failed teardown call does not stop the sequence.
TeardownCallTolerant(at, kind, next) ==
  /\ pc = at
  /\ \E results \in Responses :
       LET e == _check_results(gen, results) IN
       /\ trace' = Append(trace, Reply(results, Call("teardown", "teardownResource", kind,
                                      EmptyDict, e.type = "none", "-")))
       /\ pc' = next
       /\ tdExc' = IF e.type = "none" THEN tdExc ELSE e
  /\ UNCHANGED <<gen, widgets, notebook_parameters, output_table_parameters,
                 store, fetches, output, ret, runExc>>

TeardownCall(at, kind, next) ==
  /\ pc = at
  /\ LET resource == TeardownArg(gen, kind)
         p == TeardownPrint(gen, resource)
     IN  IF p.type # "none"
         THEN /\ pc' = "done"
              /\ tdExc' = p
              /\ trace' = Append(trace, Unsent("teardown", "teardownResource", kind))
         ELSE \E results \in Responses :
              LET e == _check_results(gen, results) IN
              /\ trace' = Append(trace, Reply(results, Call("teardown", "teardownResource", kind,
                                             TeardownBody(gen, resource), e.type = "none", "-")))
              /\ IF e.type = "none"
                 THEN pc' = next /\ UNCHANGED tdExc
                 ELSE pc' = "done" /\ tdExc' = e
  /\ UNCHANGED <<gen, widgets, notebook_parameters, output_table_parameters,
                 store, fetches, output, ret, runExc>>

TeardownNotebookServicePrincipal == TeardownCall("td_nsp", "NOTEBOOK_SERVICE_PRINCIPAL", "td_ws")
TeardownWorkspace == TeardownCall("td_ws", "WORKSPACE", "td_cs")
TeardownCollaboratorShares == TeardownCall("td_cs", "COLLABORATOR_SHARES", "td_ms")
\* Faulty variant: the last resource teardown is asked for the notebook.
TeardownNotebook == TeardownCall("td_ms", "NOTEBOOK", "td_delete")
TeardownMetastore == TeardownCall("td_ms", "METASTORE", "td_delete")

DeleteStation ==
  /\ pc = "td_delete"
  /\ \E results \in Responses :
       LET e == _check_results(gen, results) IN
       /\ trace' = Append(trace, Reply(results, Call("teardown", "deleteStation", "-", EmptyDict,
                                      e.type = "none", "-")))
       /\ IF e.type = "none"
          THEN pc' = "td_report" /\ UNCHANGED tdExc
          ELSE pc' = "done" /\ tdExc' = e
  /\ UNCHANGED <<gen, widgets, notebook_parameters, output_table_parameters,
                 store, fetches, output, ret, runExc>>

\* Faulty variant: the warning about a failed run is not printed.
ReportEventsQuiet(s) ==
  IF /\ Truthy(TaskGet(s, "notebook_url", StrVal(<<>>)))
     /\ Truthy(TaskGet(s, "notebook_run_state", StrVal(<<>>)))
  THEN << DisplayEv("teardown", TaskGet(s, "notebook_url", StrVal(<<>>)).v) >>
  ELSE <<>>

\* Faulty variant: the link is displayed whether or not an outcome was stored.
ReportEventsAlways(s) ==
  << DisplayEv("teardown", TaskGet(s, "notebook_url", StrVal(<<>>)).v) >>

\* What the teardown phase shows once the station is gone.
ReportEvents(s) ==
  LET notebook_url == TaskGet(s, "notebook_url", StrVal(<<>>))
      notebook_run_state == TaskGet(s, "notebook_run_state", StrVal(<<>>))
  IN  IF Truthy(notebook_url) /\ Truthy(notebook_run_state)
      THEN << DisplayEv("teardown", notebook_url.v) >>
           \o (IF /\ "result_state" \in DOMAIN notebook_run_state.v
                  /\ notebook_run_state.v.result_state # "SUCCESS"
               THEN << PrintEv("teardown", "Notebook run failed. Please inspect results.") >>
               ELSE <<>>)
      ELSE <<>>

TeardownReport ==
  /\ pc = "td_report"
  /\ trace' = trace \o ReportEvents(store)
  /\ pc' = "done"
  /\ UNCHANGED <<gen, widgets, notebook_parameters, output_table_parameters,
                 store, fetches, output, ret, runExc, tdExc>>

---------------------------------------------------------------------------
Next ==
  \/ PrepareEntry
  \/ CreateStation
  \/ SetupMetastore
  \/ SetupCollaboratorShares
  \/ SetupWorkspace
  \/ PollWorkspace
  \/ SetupNotebookServicePrincipal
  \/ SetupNotebook
  \/ RunNotebook
  \/ PollRunState
  \/ ExportNotebookOutput
  \/ ImportNotebook
  \/ GetNotebookStatus
  \/ PersistOutcome
  \/ TeardownEntry
  \/ TeardownNotebookServicePrincipal
  \/ TeardownWorkspace
  \/ TeardownCollaboratorShares
  \/ TeardownMetastore
  \/ DeleteStation
  \/ TeardownReport

Spec == Init /\ [][Next]_vars

\* The job is one sequential program: as long as its blocking calls (requests,
\* time.sleep) return, it takes its next step.
FairSpec == Spec /\ WF_vars(Next)

---------------------------------------------------------------------------
\* Vocabulary of the properties

\* Positions of the teardown phase, and the position after both phases.
TeardownPcs == {"td_nsp", "td_ws", "td_cs", "td_ms", "td_delete", "td_report"}
RunPhaseOver == pc \in {"run_end", "done"} \cup TeardownPcs

IsRunCall(e) == e.ev = "call" /\ e.ph = "run"
IsTeardownCall(e) == e.ev = "call" /\ e.ph = "teardown"
IsProvisioning(e) == IsRunCall(e) /\ e.op \in {"createStation", "setupResource", "runNotebook"}
IsWsFetch(e) == IsRunCall(e) /\ e.op = "getWorkspaceStatus"
IsRunFetch(e) == IsRunCall(e) /\ e.op = "getRunState"

RunCalls == SelectSeq(trace, IsRunCall)
TeardownCalls == SelectSeq(trace, IsTeardownCall)
ProvisioningCalls == SelectSeq(trace, IsProvisioning)

Tag(e) == <<e.op, e.kind>>
Last(q) == q[Len(q)]

\* Index in the trace of the last client-method invocation of the run phase.
LastRunCallIndex ==
  CHOOSE i \in 0..Len(trace) :
    /\ i > 0 => IsRunCall(trace[i])
    /\ \A j \in (i + 1)..Len(trace) : ~IsRunCall(trace[j])

ProvisioningOrder ==
  << <<"createStation", "-">>,
     <<"setupResource", "METASTORE">>,
     <<"setupResource", "COLLABORATOR_SHARES">>,
     <<"setupResource", "WORKSPACE">>,
     <<"setupResource", "NOTEBOOK_SERVICE_PRINCIPAL">>,
     <<"setupResource", "NOTEBOOK">>,
     <<"runNotebook", "-">> >>

TeardownOrder ==
  << <<"teardownResource", "NOTEBOOK_SERVICE_PRINCIPAL">>,
     <<"teardownResource", "WORKSPACE">>,
     <<"teardownResource", "COLLABORATOR_SHARES">>,
     <<"teardownResource", "METASTORE">>,
     <<"deleteStation", "-">> >>

---------------------------------------------------------------------------
\* C1.  In both generations the provisioning calls of prepareAndRunNotebook
\* (createStation, the five setups, runNotebook) are issued in the one fixed
\* order, each at most once, and a call is issued only after every earlier
\* one has returned successfully.
C1_ProvisioningOrder ==
  /\ Len(ProvisioningCalls) <= Len(ProvisioningOrder)
  /\ \A i \in 1..Len(ProvisioningCalls) :
       /\ Tag(ProvisioningCalls[i]) = ProvisioningOrder[i]
       /\ ProvisioningCalls[i].sent
       /\ i < Len(ProvisioningCalls) => ProvisioningCalls[i].ok

\* All seven provisioning calls have been issued, by generation 1.
C1_Witness ==
  /\ gen = 1
  /\ Len(ProvisioningCalls) = 7
  /\ pc = "poll_run"

---------------------------------------------------------------------------
IsWsFetched(e) == IsWsFetch(e) /\ e.ok
IsRunFetched(e) == IsRunFetch(e) /\ e.ok

\* The statuses the two wait loops have fetched so far, as trace events.
WsFetched == SelectSeq(trace, IsWsFetched)
RunFetched == SelectSeq(trace, IsRunFetched)

IssuedInRun(tag) == \E i \in DOMAIN trace : IsRunCall(trace[i]) /\ Tag(trace[i]) = tag

\* The statement after the workspace loop is the NOTEBOOK_SERVICE_PRINCIPAL setup.
WsLoopSucceeded ==
  pc = "setup_nsp" \/ IssuedInRun(<<"setupResource", "NOTEBOOK_SERVICE_PRINCIPAL">>)
ProvisioningFailed ==
  runExc = Exc("RuntimeError", <<"Workspace could not be provisioned">>)

\* The statement after the run loop is the export.
RunLoopSucceeded == pc = "export" \/ IssuedInRun(<<"exportNotebookOutput", "-">>)
NotebookRunFailed == runExc = Exc("RuntimeError", <<"Notebook could not be run">>)

\* C2.  The workspace wait loop ends successfully exactly when the statuses it
\* fetched are PROVISIONING ... PROVISIONING, RUNNING; it raises "Workspace
\* could not be provisioned" exactly when the last fetched status is neither
\* PROVISIONING nor RUNNING, that status is the first such one, and the fetch
\* that returned it is the last platform call of the run phase.
C2_WorkspaceLoop ==
  /\ \A i \in 1..(Len(WsFetched) - 1) : WsFetched[i].res = "PROVISIONING"
  /\ WsLoopSucceeded <=> (WsFetched # <<>> /\ Last(WsFetched).res = "RUNNING")
  /\ ProvisioningFailed <=>
       (WsFetched # <<>> /\ Last(WsFetched).res \notin {"PROVISIONING", "RUNNING"})
  /\ ProvisioningFailed =>
       /\ LastRunCallIndex > 0
       /\ IsWsFetched(trace[LastRunCallIndex])
       /\ trace[LastRunCallIndex].res \notin {"PROVISIONING", "RUNNING"}
       /\ RunPhaseOver

\* The loop polled through PROVISIONING and then raised on an offending status.
C2_Witness ==
  /\ ProvisioningFailed
  /\ Len(WsFetched) >= 2
  /\ WsFetched[1].res = "PROVISIONING"
  /\ Last(WsFetched).res = "FAILED"

\* C3.  The notebook-run wait loop ends successfully exactly when the last
\* fetched life_cycle_state is TERMINATED and nothing fetched before it was
\* TERMINATED, SKIPPED or INTERNAL_ERROR; it raises "Notebook could not be run"
\* exactly on the first SKIPPED or INTERNAL_ERROR, with no further platform
\* call of the run phase; after any other fetched value the next thing it does
\* is fetch the run state again.
C3_RunLoop ==
  /\ \A i \in 1..(Len(RunFetched) - 1) :
       RunFetched[i].res \notin {"TERMINATED", "SKIPPED", "INTERNAL_ERROR"}
  /\ RunLoopSucceeded <=> (RunFetched # <<>> /\ Last(RunFetched).res = "TERMINATED")
  /\ NotebookRunFailed <=>
       (RunFetched # <<>> /\ Last(RunFetched).res \in {"SKIPPED", "INTERNAL_ERROR"})
  /\ NotebookRunFailed =>
       /\ LastRunCallIndex > 0
       /\ IsRunFetched(trace[LastRunCallIndex])
       /\ trace[LastRunCallIndex].res \in {"SKIPPED", "INTERNAL_ERROR"}
       /\ RunPhaseOver
  /\ \A i \in DOMAIN trace :
       (/\ IsRunFetched(trace[i])
        /\ trace[i].res \notin {"TERMINATED", "SKIPPED", "INTERNAL_ERROR"})
       => IF i = Len(trace) THEN pc = "poll_run" ELSE IsRunFetch(trace[i + 1])

\* The loop polled through two different in-progress values and then raised on SKIPPED.
C3_Witness ==
  /\ NotebookRunFailed
  /\ Len(RunFetched) = 3
  /\ RunFetched[1].res = "PENDING"
  /\ RunFetched[2].res = "RUNNING"
  /\ RunFetched[3].res = "SKIPPED"

---------------------------------------------------------------------------
\* The handoff store holds station_created = True.
FlagRecorded ==
  /\ "station_created" \in DOMAIN store
  /\ store["station_created"] = BoolVal(TRUE)

IsTeardownEvent(e) == e.ph = "teardown"
IsRunEvent(e) == e.ph = "run"
TeardownEvents == SelectSeq(trace, IsTeardownEvent)
RunEvents == SelectSeq(trace, IsRunEvent)

AllOk(calls) == \A i \in DOMAIN calls : calls[i].ok

\* C4 as stated: whenever the teardown sequence has run, all four
\* teardown-resource calls and the deleteStation call were attempted, in the
\* fixed order, whether or not one of them raised.
C4_AllAttemptedRegardless ==
  (pc = "done" /\ FlagRecorded) =>
    /\ Len(TeardownCalls) = Len(TeardownOrder)
    /\ \A i \in 1..Len(TeardownCalls) : Tag(TeardownCalls[i]) = TeardownOrder[i]

\* C4, amended.  Teardown attempts its calls in the fixed order
\* NOTEBOOK_SERVICE_PRINCIPAL, WORKSPACE, COLLABORATOR_SHARES, METASTORE,
\* deleteStation and stops at the first one that raises: the calls attempted
\* are a prefix of that order, each attempted only after all earlier ones
\* returned, and a finished teardown attempted all five exactly when none of
\* the first four raised.
C4_FixedOrderFailFast ==
  /\ Len(TeardownCalls) <= Len(TeardownOrder)
  /\ \A i \in 1..Len(TeardownCalls) :
       /\ Tag(TeardownCalls[i]) = TeardownOrder[i]
       /\ i < Len(TeardownCalls) => TeardownCalls[i].ok
  /\ (pc = "done" /\ FlagRecorded) =>
       /\ TeardownCalls # <<>>
       /\ Len(TeardownCalls) = Len(TeardownOrder) \/ ~Last(TeardownCalls).ok
       /\ tdExc.type = "none" <=>
            (Len(TeardownCalls) = Len(TeardownOrder) /\ AllOk(TeardownCalls))

\* A teardown that stopped at its third call, which raised.
C4_Witness ==
  /\ pc = "done"
  /\ Len(TeardownCalls) = 3
  /\ TeardownCalls[3].sent
  /\ ~TeardownCalls[3].ok
  /\ tdExc.type = "HTTPError"

---------------------------------------------------------------------------
\* The texts the parameter validation has to reject, said without parseParameters.
HasNonStringValue(text) ==
  text.tag = "object" /\ \E i \in DOMAIN text.pairs : text.pairs[i][2].t # "str"
Malformed(text) == text.tag \in {"invalid", "array"} \/ HasNonStringValue(text)
BadInput(w) ==
  \/ Malformed(w.nb_text)
  \/ Malformed(w.ot_text)
  \/ w.clean_room = ""
  \/ w.station_name = ""

IsSet(e, key, val) == e.ev = "set" /\ e.op = key /\ e.body = val

\* C5 as stated: every execution of the generation-2 run phase, also one that
\* aborts on its parameters, ends with station_created = True in the store,
\* written before the first platform call.
C5_AlwaysRecorded ==
  gen = 2 =>
    /\ RunPhaseOver => FlagRecorded
    /\ RunCalls # <<>> => IsSet(trace[1], "station_created", BoolVal(TRUE))

\* C5, amended.  The generation-2 run phase records station_created = True
\* after validating its parameters and before its first platform call: the
\* write is the first effect of every execution that issues a platform call,
\* and the phase ends with the flag recorded exactly when the two parameter
\* texts and the clean room and station names passed validation.
C5_RecordedBeforeFirstCall ==
  gen = 2 =>
    /\ RunCalls # <<>> =>
         /\ IsSet(trace[1], "station_created", BoolVal(TRUE))
         /\ FlagRecorded
    /\ RunPhaseOver => (FlagRecorded <=> ~BadInput(widgets))

\* createStation has just been issued, after the flag was written.
C5_Witness ==
  /\ gen = 2
  /\ Len(trace) = 2
  /\ IsSet(trace[1], "station_created", BoolVal(TRUE))
  /\ IsRunCall(trace[2])
  /\ trace[2].op = "createStation"
  /\ FlagRecorded

---------------------------------------------------------------------------
\* C6.  In both generations the teardown phase acts only on a recorded
\* station_created flag: without it the phase ends having attempted no
\* teardown-resource or deleteStation call and displayed nothing; with it the
\* teardown sequence is started (its first call is attempted).
C6_TeardownGuard ==
  /\ TeardownEvents # <<>> => FlagRecorded
  /\ pc \in TeardownPcs => FlagRecorded
  /\ pc = "done" =>
       (FlagRecorded <=>
          /\ TeardownCalls # <<>>
          /\ Tag(TeardownCalls[1]) = TeardownOrder[1])

\* A job whose run phase aborted before recording the flag: teardown did nothing.
C6_Witness ==
  /\ pc = "done"
  /\ gen = 2
  /\ ~FlagRecorded
  /\ runExc.type # "none"
  /\ TeardownEvents = <<>>

---------------------------------------------------------------------------
\* C7.  Generation 2: wherever the run phase failed after recording the flag,
\* the teardown phase sends the same sequence: its i-th request is the i-th
\* entry of the fixed order starting with NOTEBOOK_SERVICE_PRINCIPAL, whatever
\* was set up, and how far it gets depends only on the teardown calls.
C7_TeardownIgnoresProgress ==
  (gen = 2 /\ FlagRecorded /\ runExc.type # "none") =>
    /\ pc \in (TeardownPcs \ {"td_nsp"}) \cup {"done"} =>
         /\ TeardownCalls # <<>>
         /\ Tag(TeardownCalls[1]) = <<"teardownResource", "NOTEBOOK_SERVICE_PRINCIPAL">>
    /\ \A i \in 1..Len(TeardownCalls) :
         /\ i <= Len(TeardownOrder)
         /\ Tag(TeardownCalls[i]) = TeardownOrder[i]
         /\ TeardownCalls[i].sent
    /\ (pc = "done" /\ AllOk(TeardownCalls)) => Len(TeardownCalls) = Len(TeardownOrder)

\* The run phase failed at createStation, nothing was set up, and the whole
\* teardown sequence was sent.
C7_Witness ==
  /\ gen = 2
  /\ pc = "done"
  /\ Len(RunCalls) = 1
  /\ RunCalls[1].op = "createStation"
  /\ ~RunCalls[1].ok
  /\ Len(TeardownCalls) = 5
  /\ AllOk(TeardownCalls)

---------------------------------------------------------------------------
IsFatalFetch(e) ==
  \/ IsWsFetched(e) /\ e.res \notin {"PROVISIONING", "RUNNING"}
  \/ IsRunFetched(e) /\ e.res \in {"SKIPPED", "INTERNAL_ERROR"}

\* C8.  In both generations a failed platform call or a fatal poll status ends
\* the run phase there with the exception propagated: nothing else of the run
\* phase follows it in the trace, and the run phase never attempts a
\* teardown-resource or deleteStation call.
C8_RunPhaseFailFast ==
  /\ \A i \in DOMAIN trace :
       (IsRunCall(trace[i]) /\ (~trace[i].ok \/ IsFatalFetch(trace[i]))) =>
         /\ \A j \in (i + 1)..Len(trace) : ~IsRunEvent(trace[j])
         /\ runExc.type # "none"
         /\ RunPhaseOver
  /\ \A i \in DOMAIN trace :
       IsRunEvent(trace[i]) => trace[i].op \notin {"teardownResource", "deleteStation"}
  /\ runExc.type # "none" => RunPhaseOver

\* The workspace setup failed and the run phase ended there.
C8_Witness ==
  /\ pc = "run_end"
  /\ RunCalls # <<>>
  /\ Tag(Last(RunCalls)) = <<"setupResource", "WORKSPACE">>
  /\ ~Last(RunCalls).ok
  /\ runExc.type = "HTTPError"

---------------------------------------------------------------------------
\* The mapping a well-formed parameter text denotes.
Denotes(text, d) ==
  IF text.tag = "empty" THEN DOMAIN d = {}
  ELSE /\ DOMAIN d = {text.pairs[i][1] : i \in DOMAIN text.pairs}
       /\ \A k \in DOMAIN d : \E i \in DOMAIN text.pairs :
            text.pairs[i][1] = k /\ text.pairs[i][2] = d[k]
       /\ \A k \in DOMAIN d : d[k].t = "str"

\* C9.  Generation 2: when a parameter text is not valid JSON, is not an
\* object or holds a non-string value, or the clean room or station name is
\* empty, the run phase raises with no effect at all, in particular without
\* createStation; otherwise the two dicts it goes on with are the mappings the
\* texts denote, the empty text denoting the empty mapping.
C9_ValidationFailsFast ==
  (gen = 2 /\ pc # "entry") =>
    IF BadInput(widgets)
    THEN /\ runExc.type # "none"
         /\ RunEvents = <<>>
         /\ RunPhaseOver
    ELSE /\ Denotes(widgets.nb_text, notebook_parameters)
         /\ Denotes(widgets.ot_text, output_table_parameters)

\* The notebook parameters {"a": 1} were rejected before any call.
C9_Witness ==
  /\ gen = 2
  /\ pc = "run_end"
  /\ HasNonStringValue(widgets.nb_text)
  /\ widgets.clean_room # ""
  /\ widgets.station_name # ""
  /\ runExc.type = "RuntimeError"
  /\ trace = <<>>

---------------------------------------------------------------------------
IsOkCall(e, op) == IsRunCall(e) /\ e.op = op /\ e.ok
IsDisplay(e, link) == e.ev = "display" /\ e.body = link

\* C10.  Generation 2: once the helper has returned a TERMINATED state, the
\* run phase has exported, imported, fetched the metadata, written
\* notebook_url and notebook_run_state and displayed the link, in this order
\* and as its last effects, whatever the result_state; it ends without an
\* exception exactly when result_state is SUCCESS.
C10_ReportThenRaise ==
  (gen = 2 /\ RunPhaseOver /\ ret.returned) =>
    LET k == Len(RunEvents) IN
    /\ k >= 6
    /\ ret.state.life_cycle_state = "TERMINATED"
    /\ IsOkCall(RunEvents[k - 5], "exportNotebookOutput")
    /\ IsOkCall(RunEvents[k - 4], "importNotebook")
    /\ IsOkCall(RunEvents[k - 3], "getNotebookStatus")
    /\ IsSet(RunEvents[k - 2], "notebook_url", StrVal(ret.url))
    /\ IsSet(RunEvents[k - 1], "notebook_run_state", DictVal(ret.state))
    /\ IsDisplay(RunEvents[k], ret.url)
    /\ TaskGet(store, "notebook_url", StrVal(<<>>)) = StrVal(ret.url)
    /\ TaskGet(store, "notebook_run_state", DictVal(NoState)) = DictVal(ret.state)
    /\ runExc.type = "none" <=>
         ("result_state" \in DOMAIN ret.state /\ ret.state.result_state = "SUCCESS")

\* A run that terminated with result FAILED: outcome persisted, then the raise.
C10_Witness ==
  /\ gen = 2
  /\ pc = "run_end"
  /\ ret.returned
  /\ "result_state" \in DOMAIN ret.state
  /\ ret.state.result_state = "FAILED"
  /\ "notebook_url" \in DOMAIN store
  /\ "notebook_run_state" \in DOMAIN store
  /\ runExc = Exc("RuntimeError", <<"Notebook run failed. Please inspect results.">>)

---------------------------------------------------------------------------
IsProvisioningAnswer(e) == IsWsFetch(e) /\ e.res = "PROVISIONING"
IsNonTerminalAnswer(e) ==
  IsRunFetched(e) /\ e.res \notin {"TERMINATED", "SKIPPED", "INTERNAL_ERROR"}
IsStatusAnswer(e) == IsOkCall(e, "getNotebookStatus")

\* The platform has behaved as scripted so far: every call succeeded, the
\* workspace was PROVISIONING or RUNNING, the run non-terminal or TERMINATED.
Scripted ==
  /\ RunCalls # <<>>
  /\ AllOk(RunCalls)
  /\ \A i \in DOMAIN WsFetched : WsFetched[i].res \in {"PROVISIONING", "RUNNING"}
  /\ \A i \in DOMAIN RunFetched : RunFetched[i].res \notin {"SKIPPED", "INTERNAL_ERROR"}

\* C11.  On a platform that answers PROVISIONING k times and then RUNNING,
\* a non-terminal run state m times and then TERMINATED, and lets every other
\* call succeed, the lifecycle does not fail; when it has returned it has
\* made exactly k + 1 workspace-status calls and m + 1 run-state calls, it
\* returns the TERMINATED state record it fetched last, and its link embeds
\* the object id answered by the notebook-status call.
C11_ScriptedEndToEnd ==
  Scripted =>
    /\ ~ret.returned => runExc = NoExc
    /\ ret.returned =>
         LET k == Len(SelectSeq(trace, IsProvisioningAnswer))
             m == Len(SelectSeq(trace, IsNonTerminalAnswer))
             status == SelectSeq(trace, IsStatusAnswer)
         IN /\ Len(SelectSeq(trace, IsWsFetch)) = k + 1
            /\ Last(WsFetched).res = "RUNNING"
            /\ Len(SelectSeq(trace, IsRunFetch)) = m + 1
            /\ Last(RunFetched).res = "TERMINATED"
            /\ ret.state = Last(RunFetched).data
            /\ Len(status) = 1
            /\ \E i \in DOMAIN ret.url : ret.url[i] = status[1].data

\* The scenario k = 2, m = 1: three workspace-status calls, two run-state
\* calls, and a returned link for the imported notebook "8".
C11_Witness ==
  /\ Scripted
  /\ ret.returned
  /\ Len(SelectSeq(trace, IsProvisioningAnswer)) = 2
  /\ Len(SelectSeq(trace, IsWsFetch)) = 3
  /\ Len(SelectSeq(trace, IsNonTerminalAnswer)) = 1
  /\ Len(SelectSeq(trace, IsRunFetch)) = 2
  /\ ret.state.life_cycle_state = "TERMINATED"
  /\ ret.url[Len(ret.url)] = "8"

---------------------------------------------------------------------------
\* The payload of a resource request names the resource by the enumerated
\* name of its kind (generation 1 sends the name directly under "resource").
NamesKind(g, body, kind) ==
  IF g = 2 THEN body = [resource |-> [resource_type |-> kind]]
  ELSE body = [resource |-> kind]

IsResourceInvocation(e) ==
  /\ e.ev = "call"
  /\ \/ e.op = "teardownResource"
     \/ e.op = "setupResource" /\ gen = 2

\* C12.  Every setup-resource invocation (generation 2) and every
\* teardown-resource invocation (both generations) made by the lifecycle
\* controller sends its one request, and the payload of that request names
\* the resource by the enumerated name of its kind.
C12_OneRequestNamingKind ==
  \A i \in DOMAIN trace :
    IsResourceInvocation(trace[i]) =>
      /\ trace[i].sent
      /\ NamesKind(gen, trace[i].body, trace[i].kind)

\* Generation 1: the controller has invoked the teardown of the notebook
\* service principal and the call has raised before sending anything.
C12_Witness ==
  /\ gen = 1
  /\ tdExc.type = "AttributeError"
  /\ trace # <<>>
  /\ Tag(Last(trace)) = <<"teardownResource", "NOTEBOOK_SERVICE_PRINCIPAL">>
  /\ ~Last(trace).sent

\* C12, generation 2 only: the same statement holds of client.py.
C12_Gen2OneRequestNamingKind == gen = 2 => C12_OneRequestNamingKind

---------------------------------------------------------------------------
IsRefused(e) == e.ev = "call" /\ e.sent /\ e.reply.status_code \notin 200..299
Contains(msg, text) == \E i \in DOMAIN msg : msg[i] = text

\* The exception a phase ended with is the remote-call error for the answer
\* `reply`, carrying the body of the answer when there is one.
RemoteCallError(exc, reply) ==
  /\ exc.type = "HTTPError"
  /\ reply.text # "" => Contains(exc.msg, reply.text)

\* C13.  Every client call answered with a non-2xx status raises: it does not
\* return, it is the last call of its phase, and the phase ends with the
\* remote-call error, whose message contains the body of the answer whenever
\* that body is not empty.  Stated of both generations.
C13_RefusedCallRaises ==
  \A i \in DOMAIN trace :
    IsRefused(trace[i]) =>
      /\ ~trace[i].ok
      /\ IF trace[i].ph = "run"
         THEN trace[i] = Last(RunCalls) /\ RemoteCallError(runExc, trace[i].reply)
         ELSE trace[i] = Last(TeardownCalls) /\ RemoteCallError(tdExc, trace[i].reply)

\* Generation 1: createStation answered 409 "station exists" ends the run
\* phase with an AttributeError that does not carry the body.
C13_Witness ==
  /\ gen = 1
  /\ Len(trace) = 1
  /\ trace[1].op = "createStation"
  /\ trace[1].reply = [status_code |-> 409, text |-> "station exists"]
  /\ runExc.type = "AttributeError"
  /\ ~Contains(runExc.msg, "station exists")

\* C13, generation 2 only: the same statement holds of client.py.
C13_Gen2RefusedCallRaises == gen = 2 => C13_RefusedCallRaises

---------------------------------------------------------------------------
IsPoll(e) == e.op \in {"getWorkspaceStatus", "getRunState"}

\* The answer that makes a wait loop fetch again.
AsksToWait(e) ==
  /\ e.ok
  /\ IF e.op = "getWorkspaceStatus" THEN e.res = "PROVISIONING"
     ELSE e.res \notin {"TERMINATED", "SKIPPED", "INTERNAL_ERROR"}

\* C14.  Nothing is retried outside the two wait loops: within a phase, an
\* operation invoked twice (same operation, same resource kind) is one of the
\* two status fetches, and every fetch followed by another fetch of the same
\* loop returned the in-progress status; a failed call is never followed by a
\* repetition of itself.
C14_NoRetries ==
  \A i, j \in DOMAIN trace :
    ( /\ i < j
      /\ trace[i].ev = "call" /\ trace[j].ev = "call"
      /\ trace[i].ph = trace[j].ph
      /\ Tag(trace[i]) = Tag(trace[j]) ) =>
        /\ IsPoll(trace[i])
        /\ trace[i].ph = "run"
        /\ AsksToWait(trace[i])

\* Both wait loops have fetched twice, and a later call has failed and ended
\* the run phase without being repeated.
C14_Witness ==
  /\ Len(SelectSeq(trace, IsWsFetch)) = 2
  /\ Len(SelectSeq(trace, IsRunFetch)) = 2
  /\ pc = "run_end"
  /\ ~Last(RunCalls).ok
  /\ Last(RunCalls).op = "importNotebook"

---------------------------------------------------------------------------
TeardownKinds == {"NOTEBOOK_SERVICE_PRINCIPAL", "WORKSPACE", "COLLABORATOR_SHARES", "METASTORE"}

IsDeleteStation(e) == IsTeardownCall(e) /\ e.op = "deleteStation"
TornDownBefore(j, kind) ==
  \E i \in 1..(j - 1) :
    /\ IsTeardownCall(trace[i])
    /\ Tag(trace[i]) = <<"teardownResource", kind>>
    /\ trace[i].sent /\ trace[i].ok

\* C15.  A teardown call that raises is the last call of the job: no later
\* teardown-resource call, no deleteStation and no repetition follows it, and
\* the teardown ends with its exception.  deleteStation is invoked only after
\* each of the four resource teardowns has been sent and has returned.
C15_PartialTeardownStops ==
  /\ \A i \in DOMAIN trace :
       (IsTeardownCall(trace[i]) /\ ~trace[i].ok) =>
         /\ \A j \in (i + 1)..Len(trace) : trace[j].ev # "call"
         /\ pc = "done"
         /\ tdExc # NoExc
  /\ \A j \in DOMAIN trace :
       IsDeleteStation(trace[j]) => \A kind \in TeardownKinds : TornDownBefore(j, kind)

\* The workspace teardown was refused: the teardown is over with two calls
\* made, collaborator shares, metastore and station left in place.
C15_Witness ==
  /\ pc = "done"
  /\ Len(TeardownCalls) = 2
  /\ Tag(TeardownCalls[2]) = <<"teardownResource", "WORKSPACE">>
  /\ TeardownCalls[2].reply.status_code = 409
  /\ tdExc.type = "HTTPError"
  /\ \A i \in DOMAIN trace : ~IsDeleteStation(trace[i])

---------------------------------------------------------------------------
\* Before position j of the trace, a run-phase call of operation op (and
\* resource kind) returned, fetching res where the operation fetches a status.
ReturnedBefore(j, tag, res) ==
  \E i \in 1..(j - 1) :
    /\ IsRunCall(trace[i])
    /\ Tag(trace[i]) = tag
    /\ trace[i].ok
    /\ trace[i].res = res

NeedsWorkspace ==
  { <<"setupResource", "NOTEBOOK_SERVICE_PRINCIPAL">>, <<"setupResource", "NOTEBOOK">>,
    <<"runNotebook", "-">> }
NeedsTerminated ==
  { <<"exportNotebookOutput", "-">>, <<"importNotebook", "-">>, <<"getNotebookStatus", "-">> }

\* C16.  In the run phase the notebook-service-principal and notebook setups
\* and runNotebook are invoked only after a workspace-status fetch returned
\* RUNNING; a run-state fetch only after runNotebook returned; the export,
\* the import and the metadata fetch only after a run-state fetch returned
\* TERMINATED, the import after the export returned and the metadata fetch
\* after the import returned.
C16_ReadinessGates ==
  \A j \in DOMAIN trace :
    IsRunCall(trace[j]) =>
      /\ Tag(trace[j]) \in NeedsWorkspace =>
           ReturnedBefore(j, <<"getWorkspaceStatus", "-">>, "RUNNING")
      /\ IsRunFetch(trace[j]) => ReturnedBefore(j, <<"runNotebook", "-">>, "-")
      /\ Tag(trace[j]) \in NeedsTerminated =>
           ReturnedBefore(j, <<"getRunState", "-">>, "TERMINATED")
      /\ trace[j].op = "importNotebook" =>
           ReturnedBefore(j, <<"exportNotebookOutput", "-">>, "-")
      /\ trace[j].op = "getNotebookStatus" =>
           ReturnedBefore(j, <<"importNotebook", "-">>, "-")

\* A run that waited at both gates and then went through to the metadata
\* fetch.
C16_Witness ==
  /\ Len(WsFetched) = 2
  /\ WsFetched[1].res = "PROVISIONING"
  /\ Len(RunFetched) = 2
  /\ RunFetched[1].res = "PENDING"
  /\ RunCalls # <<>>
  /\ Last(RunCalls).op = "getNotebookStatus"

---------------------------------------------------------------------------
\* This step is an iteration of a wait loop that fetched the in-progress status.
ToldToWait ==
  /\ pc \in {"poll_ws", "poll_run"}
  /\ trace' # trace
  /\ AsksToWait(Last(trace'))

RunPhaseEnded == ret.returned \/ runExc # NoExc

\* C17.  The wait loops have no attempt bound and no timeout: an iteration
\* that fetches the in-progress status, however many came before it, leaves
\* the lifecycle in the same loop, not ended and about to fetch again, with
\* one more fetch made.  Conversely, on a platform that stops answering
\* PROVISIONING and stops answering non-terminal run states, the lifecycle
\* eventually ends (it returns when every call succeeds, and raises otherwise).
C17_UnboundedPolling ==
  /\ [][ToldToWait => /\ pc' = pc
                       /\ ~RunPhaseEnded'
                       /\ fetches'.ws + fetches'.run = fetches.ws + fetches.run + 1]_vars
  /\ <>RunPhaseEnded
  /\ [](AllOk(RunCalls) /\ ~ProvisioningFailed /\ ~NotebookRunFailed /\ ~BadInput(widgets))
       => <>ret.returned

\* Both loops have been told to wait as often as the platform does so, and
\* the lifecycle is still polling.
C17_Witness ==
  /\ pc = "poll_run"
  /\ Len(SelectSeq(trace, IsProvisioningAnswer)) = MaxInProgress
  /\ Len(SelectSeq(trace, IsNonTerminalAnswer)) = MaxInProgress
  /\ ~RunPhaseEnded

---------------------------------------------------------------------------
OutcomeKeys == {"notebook_url", "notebook_run_state"}
IsOutcomeWrite(e) == e.ev = "set" /\ e.op \in OutcomeKeys
OutcomeWrites == SelectSeq(trace, IsOutcomeWrite)
IsReport(e) == e.ph = "teardown" /\ e.ev \in {"display", "print"}

---------------------------------------------------------------------------
\* The calls of the lifecycle method after its wait for the run, and where the
\* method stands after each of them.
TailOps == <<"exportNotebookOutput", "importNotebook", "getNotebookStatus">>
TailPcs == <<"export", "import", "get_status">>

\* The run-phase calls made after position j of the trace.
CallsAfter(j) == SelectSeq(SubSeq(trace, j + 1, Len(trace)), IsRunCall)

\* C19.  What the lifecycle method does after fetching a TERMINATED run state
\* is the same whatever result_state that state carries (SUCCESS, FAILED or
\* none): its calls are export, import, metadata fetch, each made once the
\* previous one returned, with payloads that do not involve the run state;
\* while none has failed the method stands at the next of them, and once the
\* three have returned it has returned the fetched state without an exception.
C19_ResultStateNotControl ==
  \A j \in DOMAIN trace :
    (IsRunFetched(trace[j]) /\ trace[j].res = "TERMINATED") =>
      LET tail == CallsAfter(j) IN
      /\ Len(tail) <= 3
      /\ \A i \in DOMAIN tail :
           /\ Tag(tail[i]) = <<TailOps[i], "-">>
           /\ i < Len(tail) => tail[i].ok
           /\ tail[i].body \in
                { EmptyDict, [path |-> OutputPath],
                  [path |-> OutputPath, content |-> ImportContent(gen, output),
                   format |-> "HTML"] }
      /\ (AllOk(tail) /\ Len(tail) < 3) => pc = TailPcs[Len(tail) + 1] /\ runExc = NoExc
      /\ (AllOk(tail) /\ Len(tail) = 3) =>
           /\ ret.returned
           /\ ret.state = trace[j].data
           /\ pc = AfterHelper(gen) => runExc = NoExc
      /\ ~AllOk(tail) => ~ret.returned

\* The lifecycle method has just returned a run state whose result is FAILED,
\* after export, import and metadata fetch.
C19_Witness ==
  /\ ret.returned
  /\ "result_state" \in DOMAIN ret.state
  /\ ret.state.result_state = "FAILED"
  /\ pc = AfterHelper(gen)
  /\ runExc = NoExc
  /\ Last(trace).op = "getNotebookStatus"

---------------------------------------------------------------------------
IsStoreWrite(e) == e.ev = "set"
IsWarning(e) == e.ph = "teardown" /\ e.ev = "print"
Reports == SelectSeq(trace, IsReport)

\* Both outcome keys are in the store with non-empty values.
OutcomeStored ==
  /\ OutcomeKeys \subseteq DOMAIN store
  /\ store["notebook_url"].v # <<>>
  /\ store["notebook_run_state"].v # <<>>

ResultNotSuccess ==
  /\ "result_state" \in DOMAIN store["notebook_run_state"].v
  /\ store["notebook_run_state"].v.result_state # "SUCCESS"

\* C20.  No step of the teardown phase changes the handoff store (generation
\* 1 is handed its store when the phase starts) or records a write.  It reports
\* only when the five teardown calls through deleteStation have returned and
\* both notebook_url and notebook_run_state are stored and non-empty.  Once
\* such a teardown is over it has displayed the link, it has printed the
\* warning exactly when the stored result_state is present and not SUCCESS,
\* and it has not raised.
C20_TeardownReportsReadOnly ==
  /\ [][(pc \in TeardownPcs \/ (pc = "run_end" /\ gen = 2)) => store' = store]_vars
  /\ [](\A i \in DOMAIN trace : IsStoreWrite(trace[i]) => trace[i].ph = "run")
  /\ [](Reports # <<>> =>
          /\ Len(TeardownCalls) = Len(TeardownOrder)
          /\ AllOk(TeardownCalls)
          /\ IsReport(Last(trace))
          /\ OutcomeStored)
  /\ []((pc = "done" /\ OutcomeStored /\ Len(TeardownCalls) = Len(TeardownOrder)
           /\ AllOk(TeardownCalls)) =>
          /\ Reports # <<>>
          /\ IsDisplay(Reports[1], store["notebook_url"].v)
          /\ (\E i \in DOMAIN Reports : IsWarning(Reports[i])) <=> ResultNotSuccess
          /\ tdExc = NoExc)

\* A teardown that went through deleteStation and then showed the link and
\* the warning for a run that ended FAILED.
C20_Witness ==
  /\ pc = "done"
  /\ Len(TeardownCalls) = 5
  /\ AllOk(TeardownCalls)
  /\ IsWarning(Last(trace))
  /\ OutcomeStored
  /\ ResultNotSuccess
  /\ tdExc = NoExc

---------------------------------------------------------------------------
SetupKinds == TeardownKinds \cup {"NOTEBOOK"}

IsTeardownRequest(e) == IsTeardownCall(e) /\ e.op = "teardownResource"
SetUp(kind) ==
  \E i \in DOMAIN trace :
    IsRunCall(trace[i]) /\ Tag(trace[i]) = <<"setupResource", kind>> /\ trace[i].ok
TeardownRequests(kind) ==
  { i \in DOMAIN trace : IsTeardownRequest(trace[i]) /\ trace[i].sent /\ trace[i].kind = kind }

\* The teardown phase is over and none of its steps raised.
TeardownSucceeded == pc = "done" /\ FlagRecorded /\ tdExc = NoExc

\* C21.  No teardown-resource invocation is ever made for the NOTEBOOK kind.
\* After a run phase that set up the five kinds and a teardown that succeeded
\* throughout, each of NOTEBOOK_SERVICE_PRINCIPAL, WORKSPACE,
\* COLLABORATOR_SHARES and METASTORE has received exactly one teardown
\* request, NOTEBOOK none, and the station holding the notebook has been
\* deleted by the one deleteStation call that came after them.
C21_NotebookNeverTornDown ==
  /\ \A i \in DOMAIN trace : IsTeardownRequest(trace[i]) => trace[i].kind # "NOTEBOOK"
  /\ ((\A kind \in SetupKinds : SetUp(kind)) /\ TeardownSucceeded) =>
       /\ \A kind \in TeardownKinds : Cardinality(TeardownRequests(kind)) = 1
       /\ TeardownRequests("NOTEBOOK") = {}
       /\ IsDeleteStation(Last(TeardownCalls))
       /\ Last(TeardownCalls).sent /\ Last(TeardownCalls).ok
       /\ Len(SelectSeq(trace, IsDeleteStation)) = 1

\* All five kinds were set up, and the teardown has gone through its four
\* resource teardowns and the deletion of the station.
C21_Witness ==
  /\ \A kind \in SetupKinds : SetUp(kind)
  /\ TeardownSucceeded
  /\ \A kind \in TeardownKinds : TeardownRequests(kind) # {}
  /\ \E i \in DOMAIN trace : IsDeleteStation(trace[i]) /\ trace[i].ok

---------------------------------------------------------------------------
\* The lifecycle as a sequence of abstract operations, each with the position
\* from which the lifecycle method issues it.  Nothing below depends on the
\* generation or on a payload.
LifecycleSteps ==
  << [tag |-> <<"createStation", "-">>, at |-> "create"],
     [tag |-> <<"setupResource", "METASTORE">>, at |-> "setup_ms"],
     [tag |-> <<"setupResource", "COLLABORATOR_SHARES">>, at |-> "setup_cs"],
     [tag |-> <<"setupResource", "WORKSPACE">>, at |-> "setup_ws"],
     [tag |-> <<"getWorkspaceStatus", "-">>, at |-> "poll_ws"],
     [tag |-> <<"setupResource", "NOTEBOOK_SERVICE_PRINCIPAL">>, at |-> "setup_nsp"],
     [tag |-> <<"setupResource", "NOTEBOOK">>, at |-> "setup_nb"],
     [tag |-> <<"runNotebook", "-">>, at |-> "run"],
     [tag |-> <<"getRunState", "-">>, at |-> "poll_run"],
     [tag |-> <<"exportNotebookOutput", "-">>, at |-> "export"],
     [tag |-> <<"importNotebook", "-">>, at |-> "import"],
     [tag |-> <<"getNotebookStatus", "-">>, at |-> "get_status"] >>

Returned == Len(LifecycleSteps) + 1

\* What the platform's answer to a call of the lifecycle leads to: the index
\* of the next abstract operation, Returned, or 0 for a failure at this call.
AfterAnswer(e) ==
  LET k == CHOOSE n \in DOMAIN LifecycleSteps : LifecycleSteps[n].tag = Tag(e) IN
  IF e.reply.status_code \notin 200..299 THEN 0
  ELSE IF e.op = "getWorkspaceStatus"
  THEN (IF e.res = "PROVISIONING" THEN k ELSE IF e.res = "RUNNING" THEN k + 1 ELSE 0)
  ELSE IF e.op = "getRunState"
  THEN (IF e.res = "TERMINATED" THEN k + 1
        ELSE IF e.res \in {"SKIPPED", "INTERNAL_ERROR"} THEN 0 ELSE k)
  ELSE k + 1

\* C22.  In both generations the calls of the lifecycle method and the way it
\* ends are the same function of the platform's answers: the first call is
\* createStation, the call after an answered one is the abstract operation
\* that the answer leads to, a call returns exactly on a 2xx answer, and after
\* its last call the method has failed at that call, has returned the fetched
\* state, or stands at the next operation, as that answer decides.  The
\* statement names neither the generation nor a payload.
C22_SameLifecycle ==
  LET c == RunCalls IN
  /\ \A i \in DOMAIN c :
       /\ \E n \in DOMAIN LifecycleSteps : LifecycleSteps[n].tag = Tag(c[i])
       /\ c[i].sent
       /\ c[i].ok <=> c[i].reply.status_code \in 200..299
  /\ c # <<>> => Tag(c[1]) = LifecycleSteps[1].tag
  /\ \A i \in 1..(Len(c) - 1) :
       /\ AfterAnswer(c[i]) \in DOMAIN LifecycleSteps
       /\ Tag(c[i + 1]) = LifecycleSteps[AfterAnswer(c[i])].tag
  /\ c # <<>> =>
       LET n == AfterAnswer(Last(c)) IN
       IF n = 0 THEN ~ret.returned /\ runExc # NoExc /\ RunPhaseOver
       ELSE IF n = Returned
       THEN ret.returned /\ ret.state = Last(RunFetched).data
       ELSE pc = LifecycleSteps[n].at /\ ~ret.returned /\ runExc = NoExc

\* Generation 1 has failed at importNotebook on a 409 answer with a body, the
\* step where generation 2 fails on the same answers.
C22_Witness ==
  /\ gen = 1
  /\ pc = "run_end"
  /\ RunCalls # <<>>
  /\ Last(RunCalls).op = "importNotebook"
  /\ Last(RunCalls).reply = [status_code |-> 409, text |-> "station exists"]
  /\ Len(RunCalls) = Len(LifecycleSteps) - 1
  /\ ~ret.returned

\* The same answers in generation 2: the same calls and the same failing step.
C22_WitnessGen2 ==
  /\ gen = 2
  /\ pc = "run_end"
  /\ RunCalls # <<>>
  /\ Last(RunCalls).op = "importNotebook"
  /\ Last(RunCalls).reply = [status_code |-> 409, text |-> "station exists"]
  /\ Len(RunCalls) = Len(LifecycleSteps) - 1
  /\ ~ret.returned

====
